---------------------------- MODULE Spec2Model ----------------------------
(***************************************************************************)
(* A model of loris/resolver.py: the resolvers that map an identifier to   *)
(* a (path, format) pair.                                                  *)
(*                                                                         *)
(* Python strings are modelled as tuples of one-character strings, so that *)
(* percent-decoding, splitting, joining and extension extraction are       *)
(* computed as the code computes them.  None is the tuple <<"None">>,      *)
(* which is no string (its element has more than one character).           *)
(***************************************************************************)
EXTENDS Integers, Sequences, FiniteSets, TLC

None == <<"None">>
Empty == <<>>

\* ------------------------------------------------------------ str methods

\* str.startswith / the slice comparison ident[:n] == p
StartsWith(s, p) == Len(s) >= Len(p) /\ SubSeq(s, 1, Len(p)) = p

\* c in s
Contains(s, c) == \E i \in 1..Len(s) : s[i] = c

\* str.rfind(c): the 0-based index of the last c, -1 when there is none
RFind(s, c) ==
    IF Contains(s, c)
    THEN (CHOOSE i \in 1..Len(s) : s[i] = c /\ \A j \in (i+1)..Len(s) : s[j] # c) - 1
    ELSE -1

\* str.find(c), 0-based, -1 when there is none
Find(s, c) ==
    IF Contains(s, c)
    THEN (CHOOSE i \in 1..Len(s) : s[i] = c /\ \A j \in 1..(i-1) : s[j] # c) - 1
    ELSE -1

\* str.split(c): the pieces between the occurrences of c (never empty)
RECURSIVE Split(_, _)
Split(s, c) ==
    IF ~Contains(s, c) THEN <<s>>
    ELSE LET i == Find(s, c) + 1
         IN  <<SubSeq(s, 1, i - 1)>> \o Split(SubSeq(s, i + 1, Len(s)), c)

\* str.split(c, 1): split on the first c only
Split1(s, c) ==
    IF ~Contains(s, c) THEN <<s>>
    ELSE LET i == Find(s, c) + 1
         IN  <<SubSeq(s, 1, i - 1), SubSeq(s, i + 1, Len(s))>>

\* seq[-1]
Last(q) == q[Len(q)]

\* str.strip() for blanks
RECURSIVE Strip(_)
Strip(s) ==
    IF s # Empty /\ Head(s) = " " THEN Strip(Tail(s))
    ELSE IF s # Empty /\ Last(s) = " " THEN Strip(SubSeq(s, 1, Len(s) - 1))
    ELSE s

\* ------------------------------------------------------------ urllib

\* The escapes of the identifiers of the model: %XX for the characters
\* '%', '.', '/' and ':'.
HexChar == (<<"2", "5">> :> "%") @@ (<<"2", "E">> :> ".") @@
           (<<"2", "F">> :> "/") @@ (<<"3", "A">> :> ":")

\* urllib.unquote: every %XX with XX a known escape becomes its character;
\* any other '%' is kept.
RECURSIVE unquote(_)
unquote(s) ==
    IF s = Empty THEN Empty
    ELSE IF Head(s) = "%" /\ Len(s) >= 3 /\ <<s[2], s[3]>> \in DOMAIN HexChar
    THEN <<HexChar[<<s[2], s[3]>>]>> \o unquote(SubSeq(s, 4, Len(s)))
    ELSE <<Head(s)>> \o unquote(Tail(s))

\* urllib.quote_plus: letters, digits and '_.-' are kept, ' ' becomes '+',
\* every other character becomes %XX.
QuoteOf(c) ==
    CASE c = "%" -> <<"%", "2", "5">>
      [] c = "." -> <<".">>
      [] c = "/" -> <<"%", "2", "F">>
      [] c = ":" -> <<"%", "3", "A">>
      [] c = " " -> <<"+">>
      [] OTHER -> <<c>>

RECURSIVE quote_plus(_)
quote_plus(s) ==
    IF s = Empty THEN Empty ELSE QuoteOf(Head(s)) \o quote_plus(Tail(s))

\* ------------------------------------------------------------ os.path

\* os.path.join(a, b)
join(a, b) ==
    IF StartsWith(b, <<"/">>) THEN b
    ELSE IF a = Empty \/ Last(a) = "/" THEN a \o b
    ELSE a \o <<"/">> \o b

\* os.path.dirname(p): what precedes the last '/', without trailing slashes
RECURSIVE RStripSlash(_)
RStripSlash(s) ==
    IF s # Empty /\ Last(s) = "/" THEN RStripSlash(SubSeq(s, 1, Len(s) - 1)) ELSE s

dirname(p) ==
    LET i == RFind(p, "/") + 1
        head == SubSeq(p, 1, i)
    IN  IF head # Empty /\ \E k \in 1..Len(head) : head[k] # "/"
        THEN RStripSlash(head) ELSE head

\* The components of a path, without the empty ones and '.'
RECURSIVE Keep(_)
Keep(q) ==
    IF q = <<>> THEN <<>>
    ELSE IF Head(q) = Empty \/ Head(q) = <<".">> THEN Keep(Tail(q))
    ELSE <<Head(q)>> \o Keep(Tail(q))

\* '..' leads to the directory above (the root is above itself; the
\* filesystems of the model hold no symbolic link).
RECURSIVE Up(_, _)
Up(done, q) ==
    IF q = <<>> THEN done
    ELSE IF Head(q) = <<".", ".">>
    THEN Up(IF done = <<>> THEN <<>> ELSE SubSeq(done, 1, Len(done) - 1), Tail(q))
    ELSE Up(Append(done, Head(q)), Tail(q))

\* The file a path names.
Node(p) == Up(<<>>, Keep(Split(p, "/")))

\* ------------------------------------------------------------ identifiers

\* The identifiers of the model, as the serving layer hands them over
\* (percent-encoded).
Id_a_jpg == <<"a", ".", "j", "p", "g">>
Id_ab == <<"a", "b">>
Id_pid == <<"n", ":", "1">>
\* x.d%2Fab, which decodes to x.d/ab
Id_slash == <<"x", ".", "d", "%", "2", "F", "a", "b">>
\* a%252Ejpg, which decodes to a%2Ejpg, and that to a.jpg
Id_dbl == <<"a", "%", "2", "5", "2", "E", "j", "p", "g">>
\* b.jpegx: an extension of 6 characters with its dot
Id_long == <<"b", ".", "j", "p", "e", "g", "x">>
\* http://o/z.png
Id_url == <<"h", "t", "t", "p", ":", "/", "/", "o", "/", "z", ".", "p", "n", "g">>
HttpIdents == {Id_a_jpg, Id_ab, Id_pid, Id_slash, Id_dbl, Id_long, Id_url}

\* x%2Fy.jpg, q.TIF
Id_xy == <<"x", "%", "2", "F", "y", ".", "j", "p", "g">>
Id_q == <<"q", ".", "T", "I", "F">>
\* %2Fb%2Fq.TIF: decodes to the absolute path /b/q.TIF
Id_abs == <<"%", "2", "F", "b", "%", "2", "F", "q", ".", "T", "I", "F">>
FsIdents == {Id_xy, Id_q, Id_abs}

\* s:12, u:12, fav, s:1,2, t:12
Id_s12 == <<"s", ":", "1", "2">>
Id_u12 == <<"u", ":", "1", "2">>
Id_fav == <<"f", "a", "v">>
Id_s1c2 == <<"s", ":", "1", ",", "2">>
Id_t12 == <<"t", ":", "1", "2">>
\* m%3A1,2, which decodes to m:1,2
Id_m == <<"m", "%", "3", "A", "1", ",", "2">>
TemplateIdents == {Id_s12, Id_u12, Id_fav, Id_s1c2, Id_t12, Id_m}

\* d%2Fa.jpg, d%2Fb.jpg, c.jpg
Id_da == <<"d", "%", "2", "F", "a", ".", "j", "p", "g">>
Id_db == <<"d", "%", "2", "F", "b", ".", "j", "p", "g">>
Id_c == <<"c", ".", "j", "p", "g">>
NetFsIdents == {Id_da, Id_db, Id_c}

\* a%2Ejpg, which decodes to a.jpg
Id_enc == <<"a", "%", "2", "E", "j", "p", "g">>
\* %2Fe:1, which decodes to /e:1, and ..:1
Id_rooted == <<"%", "2", "F", "e", ":", "1">>
Id_dots == <<".", ".", ":", "1">>
LayoutIdents == {Id_a_jpg, Id_enc, Id_dbl, Id_pid, Id_rooted, Id_dots}

\* a.jpeg, a.JPEG, b.jpg
Id_a_jpeg == <<"a", ".", "j", "p", "e", "g">>
Id_a_JPEG == <<"a", ".", "J", "P", "E", "G">>
Id_b_jpg == <<"b", ".", "j", "p", "g">>
ExtIdents == {Id_a_jpeg, Id_a_JPEG, Id_b_jpg, Id_q, Id_xy}

\* o%2Fm1%2Fl, o%2Fm2%2Fl and o%2Fm1: object, media reference and size
Id_om1l == <<"o", "%", "2", "F", "m", "1", "%", "2", "F", "l">>
Id_om2l == <<"o", "%", "2", "F", "m", "2", "%", "2", "F", "l">>
Id_om1 == <<"o", "%", "2", "F", "m", "1">>
IwmIdents == {Id_om1l, Id_om2l, Id_om1}

\* Every identifier of the model, in a fixed order.
AllIdents ==
    <<Id_a_jpg, Id_ab, Id_pid, Id_slash, Id_dbl, Id_long, Id_url,
      Id_s12, Id_u12, Id_fav, Id_s1c2, Id_t12, Id_m, Id_enc, Id_rooted, Id_dots>>

\* ------------------------------------------------------------ hashlib

\* hashlib.md5(s).hexdigest(): 32 hexadecimal digits.  The digest is taken
\* to be collision-free: the strings the resolvers hash (the identifiers,
\* decoded once or twice, then quote_plus-ed) are numbered in a fixed
\* order, and a string's digest is its number written in base 16.
DigestLen == 32
HexDigits == <<"0", "1", "2", "3", "4", "5", "6", "7",
               "8", "9", "a", "b", "c", "d", "e", "f">>

HashInputs ==
    [i \in 1..(2 * Len(AllIdents)) |->
        IF i <= Len(AllIdents)
        THEN quote_plus(unquote(AllIdents[i]))
        ELSE quote_plus(unquote(unquote(AllIdents[i - Len(AllIdents)])))] \o <<>>

RECURSIVE ToHex(_, _)
ToHex(n, len) ==
    IF len = 0 THEN Empty
    ELSE ToHex(n \div 16, len - 1) \o <<HexDigits[(n % 16) + 1]>>

md5_hexdigest(s) ==
    LET i == CHOOSE k \in 1..Len(HashInputs) :
                 HashInputs[k] = s /\ \A j \in 1..(k-1) : HashInputs[j] # s
    IN  ToHex(i, DigestLen)

\* ------------------------------------------------------------ state

VARIABLES
    cfg,     \* the config dictionary handed to the constructor (None: key absent)
    self,    \* the resolver instance: its attributes, and how construction ended
    world,   \* what lies outside: the origin's answers, the source files
    dirs,    \* the directories of the local cache filesystem
    files,   \* its files: path |-> the source the bytes were copied from
    calls,   \* the calls made so far, each with its outcome
    run      \* the resolve calls in progress, each at its place in the code

vars == <<cfg, self, world, dirs, files, calls, run>>

\* How many calls a behaviour makes.
MaxCalls == 2

\* How many resolve calls run at the same time, and in how many chunks a
\* response body is written.
NumThreads == 2
NumChunks == 2
Threads == 1..NumThreads

\* ------------------------------------------------------------ local files

\* The proper and improper prefixes of a path's components, the root excepted.
Prefixes(n) == {SubSeq(n, 1, k) : k \in 1..Len(n)}

\* The directories on the way of a path, the root excepted.
OnTheWay(p) ==
    LET q == Keep(Split(p, "/"))
    IN  {Up(<<>>, SubSeq(q, 1, k)) : k \in 1..Len(q)} \ {<<>>}

Parent(n) == SubSeq(n, 1, Len(n) - 1)

\* os.path.exists(p) on the cache filesystem
exists(d, f, p) ==
    LET n == Node(p)
    IN  \/ n = <<>>
        \/ n \in d
        \/ n \in DOMAIN f /\ Last(p) # "/"

\* os.makedirs(p): OSError when p exists or a file is in the way; otherwise
\* p and every missing directory above it are made.
makedirs(d, f, p) ==
    LET n == Node(p)
    IN  IF n = <<>> \/ n \in d \/ n \in DOMAIN f \/ OnTheWay(p) \cap DOMAIN f # {}
        THEN [err |-> TRUE, dirs |-> d]
        ELSE [err |-> FALSE, dirs |-> d \cup OnTheWay(p)]

\* open(p, 'wb') and the writes that follow: IOError when p is a directory
\* or its directory is missing; otherwise the file holds the bytes of src.
open_wb(d, f, p, src) ==
    LET n == Node(p)
    IN  IF \/ p = Empty \/ Last(p) = "/" \/ n = <<>> \/ n \in d
           \/ ~(Parent(n) = <<>> \/ Parent(n) \in d)
        THEN [err |-> TRUE, files |-> f]
        ELSE [err |-> FALSE,
              files |-> [m \in DOMAIN f \cup {n} |-> IF m = n THEN src ELSE f[m]]]

\* fd.write(chunk) on a file opened for appending: the chunk lands at the end.
write_chunk_append(f, n, k, chunk) ==
    [f EXCEPT ![n] = Append(@, chunk)]

\* fd.write(chunk) at the place k of the file: what lies before stays, a
\* gap left by a truncation reads as zeros (0).
write_chunk(f, n, k, chunk) ==
    [f EXCEPT ![n] = [i \in 1..(IF Len(f[n]) > k THEN Len(f[n]) ELSE k) |->
                         IF i = k THEN chunk
                         ELSE IF i <= Len(f[n]) THEN f[n][i] ELSE 0]]

loris_cache_dot == <<"l", "o", "r", "i", "s", "_", "c", "a", "c", "h", "e", ".">>

\* glob.glob(join(cache_dir, 'loris_cache.*')): the entries of cache_dir,
\* files and directories alike, whose name starts with 'loris_cache.'
\* (the paths of the model hold no glob metacharacter).
glob_loris_cache(d, f, cache_dir) ==
    LET dir == Node(cache_dir)
    IN  {join(cache_dir, Last(n)) :
            n \in {m \in d \cup DOMAIN f :
                      /\ Len(m) = Len(dir) + 1
                      /\ Parent(m) = dir
                      /\ StartsWith(Last(m), loris_cache_dot)}}

\* ------------------------------------------------------------ requests

\* FORMATS_BY_MEDIA_TYPE of the constants module: the fixed table from
\* media type to format.
FORMATS_BY_MEDIA_TYPE ==
    ("image/tiff" :> <<"t", "i", "f">>) @@ ("image/jpeg" :> <<"j", "p", "g">>)

\* The content-type header of a response ("absent": no such header).
ContentTypes == {"absent", "image/tiff", "text/html"}

http_scheme == <<"h", "t", "t", "p", ":", "/", "/">>
https_scheme == <<"h", "t", "t", "p", "s", ":", "/", "/">>

\* requests.get / requests.head on url: MissingSchema for a URL without a
\* scheme (None included), InvalidSchema for a scheme other than http and
\* https, both raised before anything is sent; otherwise the request is
\* sent and the origin answers.
request(method, url) ==
    IF url # None /\ (StartsWith(url, http_scheme) \/ StartsWith(url, https_scheme))
    THEN [exc |-> "none", sent |-> 1,
          ok |-> IF method = "GET" THEN world.get_ok ELSE world.head_ok,
          ctype |-> world.ctype]
    ELSE IF url # None /\ Contains(url, ":")
    THEN [exc |-> "InvalidSchema", sent |-> 0, ok |-> FALSE, ctype |-> "absent"]
    ELSE [exc |-> "MissingSchema", sent |-> 0, ok |-> FALSE, ctype |-> "absent"]

\* ------------------------------------------------------------ outcomes

\* What a call hands back: out is "ok" (resolve returned a pair), "True" or
\* "False" (is_resolvable returned), "NotFound" (ResolverException 404),
\* "Misconfigured" (ResolverException 500), or the name of any other
\* exception that escapes.  nreq counts the HTTP requests sent.
\* options are the keyword arguments of the request the call made, if it made one.
NoOptions == [cert |-> None, auth |-> None, verify |-> None]

Outcome(out, why, path, fmt, nreq, d, f) ==
    [out |-> out, why |-> why, path |-> path, fmt |-> fmt, nreq |-> nreq,
     dirs |-> d, files |-> f, options |-> NoOptions]

\* The outcome of a call that handed options to requests.get / requests.head
Requested(options, o) == [o EXCEPT !.options = options]

Undetermined == <<"FormatUndetermined">>

\* ------------------------------------------------------------ SimpleHTTPResolver

\* config.get(key, default)
Get(v, default) == IF v = None THEN default ELSE v

\* re.compile(ident_regex).match(ident), for a pattern of literal characters
regex_match(regex, ident) == StartsWith(ident, regex)

\* SimpleHTTPResolver.request_options: the options dictionary (None: the
\* key is not in it)
request_options ==
    [cert |-> IF self.cert # None /\ self.key # None
              THEN <<self.cert, self.key>> ELSE None,
     auth |-> IF self.user # None /\ self.pw # None
              THEN <<self.user, self.pw>> ELSE None,
     verify |-> self.ssl_check]

\* SimpleHTTPResolver._web_request_url: [exc, url, options]
Simple_web_request_url(ident) ==
    IF (StartsWith(ident, http_scheme) \/ StartsWith(ident, https_scheme))
       /\ self.uri_resolvable
    THEN [exc |-> "none", url |-> ident, options |-> request_options]
    ELSE [exc |-> "none", url |-> self.source_prefix \o ident \o self.source_suffix,
          options |-> request_options]

\* '%s' in a template's url
RECURSIVE Holes(_)
Holes(pat) ==
    IF Len(pat) < 2 THEN 0
    ELSE IF pat[1] = "%" /\ pat[2] = "s" THEN 1 + Holes(SubSeq(pat, 3, Len(pat)))
    ELSE Holes(Tail(pat))

RECURSIVE Fill(_, _)
Fill(pat, args) ==
    IF Len(pat) < 2 THEN pat
    ELSE IF pat[1] = "%" /\ pat[2] = "s"
    THEN Head(args) \o Fill(SubSeq(pat, 3, Len(pat)), Tail(args))
    ELSE <<Head(pat)>> \o Fill(Tail(pat), args)

\* pattern % args: TypeError unless there is one argument for every %s
PyFormat(pat, args) ==
    IF Holes(pat) # Len(args) THEN [exc |-> "TypeError", url |-> None]
    ELSE [exc |-> "none", url |-> Fill(pat, args)]

\* The generic options with the overrides of the template's subsection
TemplateOptions(conf) ==
    [cert |-> IF conf.cert # None /\ conf.key # None
              THEN <<conf.cert, conf.key>> ELSE request_options.cert,
     auth |-> IF conf.user # None /\ conf.pw # None
              THEN <<conf.user, conf.pw>> ELSE request_options.auth,
     verify |-> IF conf.ssl_check # None THEN conf.ssl_check
                ELSE request_options.verify]

\* url, or the exception raised in making it, with the options that go with it
WithOptions(made, options) ==
    [exc |-> made.exc, url |-> made.url,
     options |-> IF made.exc = "none" THEN options ELSE NoOptions]

\* A dispatch that hands an identifier without a template to the URL
\* assembly of SimpleHTTPResolver.
Template_web_request_url_fallback(ident) ==
    IF Contains(ident, ":") /\ Split1(ident, ":")[1] \in DOMAIN self.templates
    THEN WithOptions(PyFormat(self.templates[Split1(ident, ":")[1]].url,
                              <<Split1(ident, ":")[2]>>),
                     TemplateOptions(self.templates[Split1(ident, ":")[1]]))
    ELSE Simple_web_request_url(ident)

\* A dispatch that sends every template's request with the generic options.
Template_web_request_url_generic(ident) ==
    IF ~Contains(ident, ":") THEN [exc |-> "none", url |-> None, options |-> NoOptions]
    ELSE LET prefix == Split1(ident, ":")[1]
             rest == Split1(ident, ":")[2]
             components == IF cfg.delimiter # None
                           THEN Split(rest, cfg.delimiter[1]) ELSE <<rest>>
         IN  IF prefix \notin DOMAIN self.templates
             THEN [exc |-> "none", url |-> None, options |-> NoOptions]
             ELSE IF self.templates[prefix].url = None
             THEN [exc |-> "KeyError", url |-> None, options |-> NoOptions]
             ELSE WithOptions(PyFormat(self.templates[prefix].url, components),
                              request_options)

\* TemplateHTTPResolver._web_request_url: [exc, url, options]
Template_web_request_url(ident) ==
    IF ~Contains(ident, ":") THEN [exc |-> "none", url |-> None, options |-> NoOptions]
    ELSE LET prefix == Split1(ident, ":")[1]
             rest == Split1(ident, ":")[2]
             components == IF cfg.delimiter # None
                           THEN Split(rest, cfg.delimiter[1]) ELSE <<rest>>
         IN  IF prefix \notin DOMAIN self.templates
             THEN [exc |-> "none", url |-> None, options |-> NoOptions]
             ELSE IF self.templates[prefix].url = None
             THEN [exc |-> "KeyError", url |-> None, options |-> NoOptions]
             ELSE WithOptions(PyFormat(self.templates[prefix].url, components),
                              TemplateOptions(self.templates[prefix]))

_web_request_url(ident) ==
    IF self.impl = "template" THEN Template_web_request_url(ident)
    ELSE Simple_web_request_url(ident)

RECURSIVE JoinAll(_, _)
JoinAll(start, pieces) ==
    IF pieces = <<>> THEN start
    ELSE JoinAll(join(start, Head(pieces)), Tail(pieces))

\* [ident_hash[0:2]] + [ident_hash[i:i+3] for i in range(2, len(ident_hash), 3)]
RECURSIVE Threes(_)
Threes(h) ==
    IF h = Empty THEN <<>>
    ELSE IF Len(h) <= 3 THEN <<h>>
    ELSE <<SubSeq(h, 1, 3)>> \o Threes(SubSeq(h, 4, Len(h)))

\* A sharding that keeps the first two digits of the digest only.
_ident_file_structure_short(ident) ==
    SubSeq(md5_hexdigest(quote_plus(ident)), 1, 2)

_ident_file_structure(ident) ==
    LET ident_hash == md5_hexdigest(quote_plus(ident))
    IN  JoinAll(Empty, <<SubSeq(ident_hash, 1, 2)>>
                       \o Threes(SubSeq(ident_hash, 3, Len(ident_hash))))

http_colon_slash == <<"h", "t", "t", "p", ":", "/">>
https_colon_slash == <<"h", "t", "t", "p", "s", ":", "/">>

_cache_subroot(ident) ==
    LET isurl == StartsWith(ident, http_colon_slash)
                 \/ StartsWith(ident, https_colon_slash)
        parts == Split(ident, ":")
        cache_subroot ==
            IF ~isurl /\ Len(parts) > 1
            THEN JoinAll(Empty, SubSeq(parts, 1, Len(parts) - 1))
            ELSE IF isurl THEN <<"h", "t", "t", "p">>
            ELSE Empty
    IN  join(cache_subroot, _ident_file_structure(ident))

cache_dir_path(ident) == join(self.cache_root, _cache_subroot(unquote(ident)))

\* A listing that never matches a staged file.
cached_files_for_ident_none(d, f, ident) == {}

cached_files_for_ident(d, f, ident) ==
    IF exists(d, f, cache_dir_path(ident))
    THEN glob_loris_cache(d, f, cache_dir_path(ident))
    ELSE {}

\* A resolver that never finds its cache entry.
in_cache_never(d, f, ident) == FALSE

in_cache(d, f, ident) == exists(d, f, cache_dir_path(ident))

\* SimpleHTTPResolver.format_from_ident: the format, or Undetermined where
\* the code raises ResolverException(404)
Http_format_from_ident(ident, potential_format) ==
    IF self.default_format # None THEN self.default_format
    ELSE IF potential_format # None THEN potential_format
    ELSE IF RFind(ident, ".") # -1 /\ Len(ident) - RFind(ident, ".") <= 5
    THEN Last(Split(ident, "."))
    ELSE Undetermined

cache_file_extension(ident, response) ==
    IF response.ctype # "absent"
    THEN IF response.ctype \in DOMAIN FORMATS_BY_MEDIA_TYPE
         THEN Http_format_from_ident(ident, FORMATS_BY_MEDIA_TYPE[response.ctype])
         ELSE Http_format_from_ident(ident, None)
    ELSE Http_format_from_ident(ident, None)

\* A population that makes the entry directory before it looks at the response.
Http_copy_to_cache_eager(d, f, ident0) ==
    LET ident == unquote(ident0)
        req == _web_request_url(ident)
        response == request("GET", req.url)
        extension == cache_file_extension(ident, response)
        cache_dir == cache_dir_path(ident)
        local_fp == join(cache_dir, loris_cache_dot \o extension)
        made == makedirs(d, f, cache_dir)
        opened == open_wb(made.dirs, f, local_fp, req.url)
    IN  IF req.exc # "none" THEN Outcome(req.exc, "url", None, None, 0, d, f)
        ELSE Requested(req.options,
             IF response.exc = "MissingSchema"
             THEN Outcome("NotFound", "schema", None, None, 0, made.dirs, f)
             ELSE IF response.exc # "none"
             THEN Outcome(response.exc, "schema", None, None, 0, made.dirs, f)
             ELSE IF ~response.ok
             THEN Outcome("NotFound", "status", None, None, 1, made.dirs, f)
             ELSE IF extension = Undetermined
             THEN Outcome("NotFound", "format", None, None, 1, made.dirs, f)
             ELSE IF opened.err
             THEN Outcome("IOError", "open", None, None, 1, made.dirs, f)
             ELSE Outcome("ok", "", None, None, 1, made.dirs, opened.files))

\* SimpleHTTPResolver.copy_to_cache
Http_copy_to_cache(d, f, ident0) ==
    LET ident == unquote(ident0)
        req == _web_request_url(ident)
        response == request("GET", req.url)
        extension == cache_file_extension(ident, response)
        cache_dir == cache_dir_path(ident)
        local_fp == join(cache_dir, loris_cache_dot \o extension)
        made == makedirs(d, f, dirname(local_fp))
        opened == open_wb(made.dirs, f, local_fp, req.url)
    IN  IF req.exc # "none" THEN Outcome(req.exc, "url", None, None, 0, d, f)
        ELSE Requested(req.options,
             IF response.exc = "MissingSchema"
             THEN Outcome("NotFound", "schema", None, None, 0, d, f)
             ELSE IF response.exc # "none"
             THEN Outcome(response.exc, "schema", None, None, 0, d, f)
             ELSE IF ~response.ok
             THEN Outcome("NotFound", "status", None, None, 1, d, f)
             ELSE IF extension = Undetermined
             THEN Outcome("NotFound", "format", None, None, 1, d, f)
             ELSE IF opened.err
             THEN Outcome("IOError", "open", None, None, 1, made.dirs, f)
             ELSE Outcome("ok", "", None, None, 1, made.dirs, opened.files))

\* SimpleHTTPResolver.resolve: the outcomes it can have (one for each file
\* the glob may list first)
Http_resolve(d, f, ident) ==
    LET served(copied, cached_files) ==
            IF copied.out # "ok" THEN {copied}
            ELSE IF cached_files = {}
            THEN {Requested(copied.options,
                            Outcome("NotFound", "nofile", None, None, copied.nreq,
                                    copied.dirs, copied.files))}
            ELSE {Requested(copied.options,
                      IF Http_format_from_ident(cached_object, None) = Undetermined
                      THEN Outcome("NotFound", "format", None, None, copied.nreq,
                                   copied.dirs, copied.files)
                      ELSE Outcome("ok", "", cached_object,
                                   Http_format_from_ident(cached_object, None),
                                   copied.nreq, copied.dirs, copied.files)) :
                  cached_object \in cached_files}
        populated(copied) ==
            served(copied, cached_files_for_ident(copied.dirs, copied.files, ident))
    IN  populated(IF in_cache(d, f, ident)
                  THEN Outcome("ok", "", None, None, 0, d, f)
                  ELSE Http_copy_to_cache(d, f, ident))

\* SimpleHTTPResolver.is_resolvable
Http_is_resolvable(d, f, ident0) ==
    LET ident == unquote(ident0)
        fp == join(self.cache_root, _cache_subroot(ident))
        req == _web_request_url(ident)
        response == request(IF self.head_resolvable THEN "HEAD" ELSE "GET", req.url)
    IN  IF self.ident_regex # None /\ ~regex_match(self.ident_regex, ident)
        THEN {Outcome("False", "regex", None, None, 0, d, f)}
        ELSE IF exists(d, f, fp)
        THEN {Outcome("True", "cached", None, None, 0, d, f)}
        ELSE IF req.exc # "none"
        THEN {Outcome(req.exc, "url", None, None, 0, d, f)}
        ELSE {Requested(req.options,
                 IF response.exc = "MissingSchema"
                 THEN Outcome("False", "schema", None, None, 0, d, f)
                 ELSE IF response.exc # "none"
                 THEN Outcome(response.exc, "schema", None, None, 0, d, f)
                 ELSE IF response.ok
                 THEN Outcome("True", "status", None, None, 1, d, f)
                 ELSE Outcome("False", "status", None, None, 1, d, f))}

\* ------------------------------------------------------------ SimpleFSResolver

\* os.path.exists(p) on the source filesystem, which the resolvers only read
src_exists(p) == Node(p) \in world.src

\* SimpleFSResolver.source_file_path: the first root, in order, under which
\* the decoded identifier exists; None when there is none
\* A search that lets a later root win over an earlier one.
RECURSIVE LastExisting(_, _)
LastExisting(roots, ident) ==
    IF roots = <<>> THEN None
    ELSE IF src_exists(join(Last(roots), ident)) THEN join(Last(roots), ident)
    ELSE LastExisting(SubSeq(roots, 1, Len(roots) - 1), ident)

RECURSIVE FirstExisting(_, _)
FirstExisting(roots, ident) ==
    IF roots = <<>> THEN None
    ELSE IF src_exists(join(Head(roots), ident)) THEN join(Head(roots), ident)
    ELSE FirstExisting(Tail(roots), ident)

Fs_source_file_path(ident) == FirstExisting(self.source_roots, unquote(ident))

Fs_is_resolvable(ident) == Fs_source_file_path(ident) # None

UpperCase == <<"A", "B", "C", "D", "E", "F", "G", "H", "I", "J", "K", "L", "M",
               "N", "O", "P", "Q", "R", "S", "T", "U", "V", "W", "X", "Y", "Z">>
LowerCase == <<"a", "b", "c", "d", "e", "f", "g", "h", "i", "j", "k", "l", "m",
               "n", "o", "p", "q", "r", "s", "t", "u", "v", "w", "x", "y", "z">>

\* str.lower()
lower(s) ==
    [i \in 1..Len(s) |->
        IF \E k \in 1..26 : UpperCase[k] = s[i]
        THEN LowerCase[CHOOSE k \in 1..26 : UpperCase[k] = s[i]]
        ELSE s[i]]

Fs_format_from_ident(ident) == lower(Last(Split(ident, ".")))

\* The alias table, applied to its own result once more.
Ext_format_from_ident_twice(ident) ==
    LET format == lower(Fs_format_from_ident(ident))
        once == IF format \in DOMAIN self.extension_map
                THEN self.extension_map[format] ELSE format
    IN  IF once \in DOMAIN self.extension_map THEN self.extension_map[once] ELSE once

\* ExtensionNormalizingFSResolver.format_from_ident
Ext_format_from_ident(ident) ==
    LET format == lower(Fs_format_from_ident(ident))
    IN  IF format \in DOMAIN self.extension_map
        THEN self.extension_map[format] ELSE format

\* self.format_from_ident, by the class of the resolver
format_from_ident(ident) ==
    IF self.impl = "extfs" THEN Ext_format_from_ident(ident)
    ELSE Fs_format_from_ident(ident)

\* SimpleFSResolver.resolve
Fs_resolve(d, f, ident) ==
    IF ~Fs_is_resolvable(ident)
    THEN {Outcome("NotFound", "source", None, None, 0, d, f)}
    ELSE {Outcome("ok", "", Fs_source_file_path(ident), format_from_ident(ident),
                  0, d, f)}

\* ------------------------------------------------------------ SourceImageCachingResolver

Net_source_file_path(ident) == join(self.source_root, unquote(ident))

Net_cache_file_path(ident) == join(self.cache_root, unquote(ident))

Net_is_resolvable(ident) == src_exists(Net_source_file_path(ident))

\* A resolver that never finds its cached copy.
Net_in_cache_never(d, f, ident) == FALSE

Net_in_cache(d, f, ident) == exists(d, f, Net_cache_file_path(ident))

Net_format_from_ident(ident) == Last(Split(ident, "."))

\* SourceImageCachingResolver.copy_to_cache: makedirs raises when the
\* directory is there already; shutil.copy then writes the file.
Net_copy_to_cache(d, f, ident) ==
    LET source_fp == Net_source_file_path(ident)
        cache_fp == Net_cache_file_path(ident)
        made == makedirs(d, f, dirname(cache_fp))
        copied == open_wb(made.dirs, f, cache_fp, source_fp)
    IN  IF made.err THEN Outcome("OSError", "makedirs", None, None, 0, d, f)
        ELSE IF copied.err
        THEN Outcome("IOError", "copy", None, None, 0, made.dirs, f)
        ELSE Outcome("ok", "", None, None, 0, made.dirs, copied.files)

\* A resolve that serves the cached copy without looking at the source.
Net_resolve_cache_first(d, f, ident) ==
    IF Net_in_cache(d, f, ident)
    THEN {Outcome("ok", "", Net_cache_file_path(ident),
                  Net_format_from_ident(ident), 0, d, f)}
    ELSE IF ~Net_is_resolvable(ident)
    THEN {Outcome("NotFound", "source", None, None, 0, d, f)}
    ELSE {Outcome("ok", "", Net_cache_file_path(ident),
                  Net_format_from_ident(ident), 0,
                  Net_copy_to_cache(d, f, ident).dirs,
                  Net_copy_to_cache(d, f, ident).files)}

\* SourceImageCachingResolver.resolve
Net_resolve(d, f, ident) ==
    LET copied == IF Net_in_cache(d, f, ident)
                  THEN Outcome("ok", "", None, None, 0, d, f)
                  ELSE Net_copy_to_cache(d, f, ident)
    IN  IF ~Net_is_resolvable(ident)
        THEN {Outcome("NotFound", "source", None, None, 0, d, f)}
        ELSE IF copied.out # "ok" THEN {copied}
        ELSE {Outcome("ok", "", Net_cache_file_path(ident),
                      Net_format_from_ident(ident), 0, copied.dirs, copied.files)}

\* ------------------------------------------------------------ IwmFSResolver

\* The records the index answers a query with: each holds its list of
\* media references and, under the name of the requested size, the list of
\* storage-relative paths (None: the record has no such field).
\* IwmFSResolver.parse_json_val over docs, from record k on: the location
\* at the place of the first reference equal to media_id; None when no
\* record has one.
RECURSIVE Iwm_parse_docs(_, _, _)
Iwm_parse_docs(docs, k, media_id) ==
    IF k > Len(docs) THEN [exc |-> "none", fpath |-> None]
    ELSE LET el == docs[k]
             places == {c \in 1..Len(el.mediaReference) :
                           el.mediaReference[c] = media_id}
             counter == CHOOSE c \in places : \A o \in places : c <= o
         IN  IF el.locations = None THEN [exc |-> "KeyError", fpath |-> None]
             ELSE IF places = {} THEN Iwm_parse_docs(docs, k + 1, media_id)
             ELSE IF counter > Len(el.locations)
             THEN [exc |-> "IndexError", fpath |-> None]
             ELSE [exc |-> "none", fpath |-> el.locations[counter]]

\* IwmFSResolver.parse_json_val (numFound is the number of records)
Iwm_parse_json_val(docs, media_id) ==
    IF Len(docs) > 0 THEN Iwm_parse_docs(docs, 1, media_id)
    ELSE [exc |-> "none", fpath |-> None]

\* IwmFSResolver.source_file_path: [exc, fp, nreq]; unpacking the split
\* identifier raises ValueError unless it has three parts
Iwm_source_file_path(ident0) ==
    LET ident == unquote(ident0)
        parts == Split(ident, "/")
        parsed == Iwm_parse_json_val(world.docs, parts[2])
    IN  IF Len(parts) # 3 THEN [exc |-> "ValueError", fp |-> None, nreq |-> 0]
        ELSE IF parsed.exc # "none" THEN [exc |-> parsed.exc, fp |-> None, nreq |-> 1]
        ELSE IF parsed.fpath = None THEN [exc |-> "none", fp |-> None, nreq |-> 1]
        ELSE [exc |-> "none", fp |-> FirstExisting(self.source_roots, parsed.fpath),
              nreq |-> 1]

Iwm_format_from_source_fp(source_fp) == Last(Split(source_fp, "."))

\* IwmFSResolver.is_resolvable
Iwm_is_resolvable(d, f, ident) ==
    LET found == Iwm_source_file_path(ident)
    IN  IF found.exc # "none"
        THEN {Outcome(found.exc, "index", None, None, found.nreq, d, f)}
        ELSE {Outcome(IF found.fp # None THEN "True" ELSE "False", "source",
                      None, None, found.nreq, d, f)}

\* IwmFSResolver.resolve: is_resolvable, then source_file_path once more
Iwm_resolve(d, f, ident) ==
    LET found == Iwm_source_file_path(ident)
    IN  IF found.exc # "none"
        THEN {Outcome(found.exc, "index", None, None, found.nreq, d, f)}
        ELSE IF found.fp = None
        THEN {Outcome("NotFound", "source", None, None, found.nreq, d, f)}
        ELSE {Outcome("ok", "", found.fp, Iwm_format_from_source_fp(found.fp),
                      2 * found.nreq, d, f)}

\* ------------------------------------------------------------ construction

\* The attributes of an instance before __init__ has run.
NewSelf ==
    [impl |-> cfg.impl, status |-> "new", source_roots |-> None,
     cache_root |-> None, source_root |-> None, source_prefix |-> None,
     source_suffix |-> None, default_format |-> None, head_resolvable |-> FALSE,
     uri_resolvable |-> FALSE, ident_regex |-> None, templates |-> <<>>,
     user |-> None, pw |-> None, cert |-> None, key |-> None, ssl_check |-> None,
     extension_map |-> <<>>]

\* SimpleFSResolver.__init__
Fs_init(c) ==
    IF c.src_img_roots # None
    THEN [NewSelf EXCEPT !.status = "ok", !.source_roots = c.src_img_roots]
    ELSE IF c.src_img_root # None
    THEN [NewSelf EXCEPT !.status = "ok", !.source_roots = <<c.src_img_root>>]
    ELSE [NewSelf EXCEPT !.status = "KeyError"]

\* True and False as values of a configuration key
PyTrue == <<"True">>
PyFalse == <<"False">>

\* A constructor that checks nothing.
Http_init_lazy(c) ==
    [NewSelf EXCEPT !.status = "ok", !.cache_root = c.cache_root,
                    !.source_prefix = Get(c.source_prefix, Empty),
                    !.source_suffix = Get(c.source_suffix, Empty),
                    !.uri_resolvable = c.uri_resolvable]

\* SimpleHTTPResolver.__init__: ResolverException(500) without cache_root,
\* and when neither uri_resolvable nor source_prefix is set
Http_init(c) ==
    LET attrs == [NewSelf EXCEPT
                    !.source_prefix = Get(c.source_prefix, Empty),
                    !.source_suffix = Get(c.source_suffix, Empty),
                    !.default_format = c.default_format,
                    !.head_resolvable = c.head_resolvable,
                    !.uri_resolvable = c.uri_resolvable,
                    !.ident_regex = c.ident_regex,
                    !.user = c.user, !.pw = c.pw, !.cert = c.cert, !.key = c.key,
                    !.ssl_check = Get(c.ssl_check, PyTrue)]
    IN  IF c.cache_root = None THEN [attrs EXCEPT !.status = "Misconfigured"]
        ELSE IF ~attrs.uri_resolvable /\ attrs.source_prefix = Empty
        THEN [attrs EXCEPT !.status = "Misconfigured", !.cache_root = c.cache_root]
        ELSE [attrs EXCEPT !.status = "ok", !.cache_root = c.cache_root]

\* The names of templates.split(','), each stripped
TemplateNames(templates) ==
    {Strip(Split(templates, ",")[i]) : i \in 1..Len(Split(templates, ","))}

\* TemplateHTTPResolver.__init__: uri_resolvable is forced, and a listed
\* template without a subsection is left out with a warning
Template_init(c) ==
    LET base == Http_init([c EXCEPT !.uri_resolvable = TRUE])
        names == TemplateNames(Get(c.templates, Empty)) \cap DOMAIN c.sections
    IN  IF base.status # "ok" THEN base
        ELSE [base EXCEPT !.templates = [n \in names |-> c.sections[n]]]

\* SourceImageCachingResolver.__init__: config['cache_root'] and
\* config['source_root'] raise KeyError when the key is absent
Net_init(c) ==
    IF c.cache_root = None \/ c.source_root = None
    THEN [NewSelf EXCEPT !.status = "KeyError"]
    ELSE [NewSelf EXCEPT !.status = "ok", !.cache_root = c.cache_root,
                         !.source_root = c.source_root]

\* ExtensionNormalizingFSResolver.__init__: config['extension_map'] raises
\* KeyError when the key is absent
Ext_init(c) ==
    IF Fs_init(c).status # "ok" \/ ~c.extension_map.present
    THEN [NewSelf EXCEPT !.status = "KeyError"]
    ELSE [Fs_init(c) EXCEPT !.extension_map = c.extension_map.map]

\* IwmFSResolver.__init__
Iwm_init(c) ==
    IF c.src_img_roots # None
    THEN [NewSelf EXCEPT !.status = "ok", !.source_roots = c.src_img_roots]
    ELSE IF c.src_img_root # None
    THEN [NewSelf EXCEPT !.status = "ok", !.source_roots = <<c.src_img_root>>]
    ELSE [NewSelf EXCEPT !.status = "KeyError"]

__init__(c) ==
    CASE c.impl = "fs" -> Fs_init(c)
      [] c.impl = "http" -> Http_init(c)
      [] c.impl = "template" -> Template_init(c)
      [] c.impl = "netfs" -> Net_init(c)
      [] c.impl = "iwm" -> Iwm_init(c)
      [] c.impl = "extfs" -> Ext_init(c)

\* ------------------------------------------------------------ operations

\* The identifiers a deployment of each strategy is asked for.
Idents ==
    CASE world.asked # {} -> world.asked
      [] cfg.impl = "fs" -> FsIdents
      [] cfg.impl = "http" -> HttpIdents
      [] cfg.impl = "template" -> TemplateIdents
      [] cfg.impl = "netfs" -> NetFsIdents
      [] cfg.impl = "iwm" -> IwmIdents
      [] cfg.impl = "extfs" -> ExtIdents

is_resolvable(ident) ==
    CASE self.impl \in {"fs", "extfs"} ->
           {Outcome(IF Fs_is_resolvable(ident) THEN "True" ELSE "False",
                    "source", None, None, 0, dirs, files)}
      [] self.impl \in {"http", "template"} -> Http_is_resolvable(dirs, files, ident)
      [] self.impl = "netfs" ->
           {Outcome(IF Net_is_resolvable(ident) THEN "True" ELSE "False",
                    "source", None, None, 0, dirs, files)}
      [] self.impl = "iwm" -> Iwm_is_resolvable(dirs, files, ident)

resolve(ident) ==
    CASE self.impl \in {"fs", "extfs"} -> Fs_resolve(dirs, files, ident)
      [] self.impl \in {"http", "template"} -> Http_resolve(dirs, files, ident)
      [] self.impl = "netfs" -> Net_resolve(dirs, files, ident)
      [] self.impl = "iwm" -> Iwm_resolve(dirs, files, ident)

\* Whether the identifier's cache entry is there as the call starts.
Hit(ident) ==
    CASE self.impl \in {"fs", "extfs", "iwm"} -> FALSE
      [] self.impl \in {"http", "template"} -> in_cache(dirs, files, ident)
      [] self.impl = "netfs" -> Net_in_cache(dirs, files, ident)

\* The cache directory the call derives for the identifier.
Derived(ident) ==
    IF self.impl \in {"http", "template"} THEN cache_dir_path(ident) ELSE None

Record(op, ident, r) ==
    [op |-> op, ident |-> ident, out |-> r.out, why |-> r.why, path |-> r.path,
     fmt |-> r.fmt, nreq |-> r.nreq, hit |-> Hit(ident), options |-> r.options,
     dir |-> Derived(ident)]

\* The serving layer constructs the resolver from the configuration.
Construct ==
    /\ self.status = "new"
    /\ self' = __init__(cfg)
    /\ UNCHANGED <<cfg, world, dirs, files, calls, run>>

\* The serving layer calls is_resolvable(ident).
IsResolvable ==
    /\ self.status = "ok"
    /\ Len(calls) < MaxCalls
    /\ \E ident \in Idents : \E r \in is_resolvable(ident) :
          /\ dirs' = r.dirs
          /\ files' = r.files
          /\ calls' = Append(calls, Record("is_resolvable", ident, r))
    /\ UNCHANGED <<cfg, self, world, run>>

\* The serving layer calls resolve(ident).
Resolve ==
    /\ self.status = "ok"
    /\ Len(calls) < MaxCalls
    /\ \E ident \in Idents : \E r \in resolve(ident) :
          /\ dirs' = r.dirs
          /\ files' = r.files
          /\ calls' = Append(calls, Record("resolve", ident, r))
    /\ UNCHANGED <<cfg, self, world, run>>

Next == Construct \/ IsResolvable \/ Resolve

\* A source file is taken off the source filesystem.
SourceRemoved ==
    /\ \E n \in world.src : world' = [world EXCEPT !.src = @ \ {n}]
    /\ UNCHANGED <<cfg, self, dirs, files, calls, run>>

NextSource == Construct \/ IsResolvable \/ Resolve \/ SourceRemoved

\* ------------------------------------------------------------ concurrent resolve

\* SimpleHTTPResolver.resolve, one step at a time, for calls that run at
\* the same time.  The chunks a call writes are marked with the call.
Thread(t) == run.thread[t]

Goto(t, th) == [run EXCEPT !.thread[t] = th]

Done(t, out, path, fmt, seen) ==
    Goto(t, [Thread(t) EXCEPT !.pc = "done", !.out = out, !.path = path,
                              !.fmt = fmt, !.seen = seen])

\* resolve: if not self.in_cache(ident)
Conc_in_cache(t) ==
    /\ self.status = "ok"
    /\ Thread(t).pc = "idle"
    /\ \E ident \in Idents :
          run' = Goto(t, [Thread(t) EXCEPT
                            !.ident = ident,
                            !.passed = ~in_cache(dirs, files, ident),
                            !.pc = IF in_cache(dirs, files, ident)
                                   THEN "cached_object" ELSE "get"])
    /\ UNCHANGED <<cfg, self, world, dirs, files, calls>>

\* copy_to_cache: requests.get, the test of the status, the extension and
\* the path of the staged file
Conc_get(t) ==
    /\ Thread(t).pc = "get"
    /\ LET ident == unquote(Thread(t).ident)
           req == _web_request_url(ident)
           response == request("GET", req.url)
           extension == cache_file_extension(ident, response)
           local_fp == join(cache_dir_path(ident), loris_cache_dot \o extension)
       IN  run' = IF req.exc # "none" THEN Done(t, req.exc, None, None, <<>>)
                  ELSE IF response.exc = "MissingSchema"
                  THEN Done(t, "NotFound", None, None, <<>>)
                  ELSE IF response.exc # "none"
                  THEN Done(t, response.exc, None, None, <<>>)
                  ELSE IF ~response.ok \/ extension = Undetermined
                  THEN Done(t, "NotFound", None, None, <<>>)
                  ELSE Goto(t, [Thread(t) EXCEPT !.pc = "makedirs", !.fp = local_fp])
    /\ UNCHANGED <<cfg, self, world, dirs, files, calls>>

\* copy_to_cache: makedirs(dirname(local_fp)), whose failure is ignored
Conc_makedirs(t) ==
    /\ Thread(t).pc = "makedirs"
    /\ dirs' = makedirs(dirs, files, dirname(Thread(t).fp)).dirs
    /\ run' = Goto(t, [Thread(t) EXCEPT !.pc = "open"])
    /\ UNCHANGED <<cfg, self, world, files, calls>>

\* copy_to_cache: open(local_fp, 'wb'), which empties the file
Conc_open(t) ==
    /\ Thread(t).pc = "open"
    /\ LET opened == open_wb(dirs, files, Thread(t).fp, <<>>)
       IN  /\ files' = opened.files
           /\ run' = IF opened.err THEN Done(t, "IOError", None, None, <<>>)
                      ELSE Goto(t, [Thread(t) EXCEPT !.pc = "write", !.offset = 0])
    /\ UNCHANGED <<cfg, self, world, dirs, calls>>

\* copy_to_cache: fd.write(chunk), and the end of the with block after the
\* last chunk
Conc_write(t) ==
    /\ Thread(t).pc = "write"
    /\ files' = write_chunk(files, Node(Thread(t).fp), Thread(t).offset + 1, t)
    /\ run' = [Goto(t, [Thread(t) EXCEPT
                           !.offset = @ + 1,
                           !.pc = IF Thread(t).offset + 1 = NumChunks
                                  THEN "cached_object" ELSE "write"])
                  EXCEPT !.last_writer = t]
    /\ UNCHANGED <<cfg, self, world, dirs, calls>>

\* resolve: cached_object (the listing's first file, whichever it is) and
\* format_from_ident; seen is what the returned file holds as the call returns
Conc_cached_object(t) ==
    /\ Thread(t).pc = "cached_object"
    /\ LET cached_files == cached_files_for_ident(dirs, files, Thread(t).ident)
       IN  IF cached_files = {}
           THEN run' = Done(t, "NotFound", None, None, <<>>)
           ELSE \E cached_object \in cached_files :
                   run' = IF Http_format_from_ident(cached_object, None) = Undetermined
                          THEN Done(t, "NotFound", None, None, <<>>)
                          ELSE Done(t, "ok", cached_object,
                                    Http_format_from_ident(cached_object, None),
                                    IF Node(cached_object) \in DOMAIN files
                                    THEN files[Node(cached_object)] ELSE <<>>)
    /\ UNCHANGED <<cfg, self, world, dirs, files, calls>>

\* The origin answers the next fetch with another content-type.
OriginChanges ==
    /\ \E t \in Threads : Thread(t).pc = "get"
    /\ \E ct \in DOMAIN FORMATS_BY_MEDIA_TYPE \ {world.ctype} :
          world' = [world EXCEPT !.ctype = ct]
    /\ UNCHANGED <<cfg, self, dirs, files, calls, run>>

NextConcurrent ==
    \/ Construct
    \/ OriginChanges
    \/ \E t \in Threads :
          \/ Conc_in_cache(t)
          \/ Conc_get(t)
          \/ Conc_makedirs(t)
          \/ Conc_open(t)
          \/ Conc_write(t)
          \/ Conc_cached_object(t)

\* ------------------------------------------------------------ deployments

NoConfig ==
    [impl |-> "", src_img_roots |-> None, src_img_root |-> None,
     cache_root |-> None, source_root |-> None, source_prefix |-> None,
     source_suffix |-> None, default_format |-> None, head_resolvable |-> FALSE,
     uri_resolvable |-> FALSE, ident_regex |-> None, templates |-> None,
     sections |-> <<>>, delimiter |-> None,
     user |-> None, pw |-> None, cert |-> None, key |-> None, ssl_check |-> None,
     extension_map |-> [present |-> FALSE, map |-> <<>>]]

NoWorld ==
    [get_ok |-> FALSE, head_ok |-> FALSE, ctype |-> "absent", src |-> {},
     asked |-> {}, docs |-> <<>>]

CacheRoot == <<"/", "c">>
\* http://o/
SourcePrefix == <<"h", "t", "t", "p", ":", "/", "/", "o", "/">>
Jp2 == <<"j", "p", "2">>

\* No call is in progress.
Idle ==
    [pc |-> "idle", ident |-> None, passed |-> FALSE, fp |-> None, offset |-> 0,
     out |-> "", path |-> None, fmt |-> None, seen |-> <<>>]

NoRun == [thread |-> [t \in Threads |-> Idle], last_writer |-> 0]

InitCommon ==
    /\ self = NewSelf
    /\ dirs = {}
    /\ files = <<>>
    /\ calls = <<>>
    /\ run = NoRun

\* The HTTP caching strategy, in every configuration that constructs.
HttpConfigs ==
    {[NoConfig EXCEPT !.impl = "http", !.cache_root = CacheRoot,
                      !.source_prefix = sp, !.uri_resolvable = u,
                      !.default_format = df, !.head_resolvable = h,
                      !.ident_regex = rx] :
        sp \in {None, SourcePrefix}, u \in BOOLEAN, df \in {None, Jp2},
        h \in BOOLEAN, rx \in {None, <<"a">>}}

\* (Only a successful answer to GET has its content-type read.)
HttpWorlds ==
    {w \in {[NoWorld EXCEPT !.get_ok = g, !.head_ok = h, !.ctype = ct] :
                g \in BOOLEAN, h \in BOOLEAN, ct \in ContentTypes} :
        w.get_ok \/ w.ctype = "absent"}

\* (The answer to HEAD is only ever asked for under head_resolvable.)
InitHTTP ==
    /\ cfg \in {c \in HttpConfigs : c.source_prefix # None \/ c.uri_resolvable}
    /\ world \in {w \in HttpWorlds : cfg.head_resolvable \/ w.head_ok = w.get_ok}
    /\ InitCommon

SpecHTTP == InitHTTP /\ [][Next]_vars

\* The template dispatch strategy: templates s and m with a subsection and
\* a url, template t listed without a subsection.
\* http://e/%s and http://e/%s/%s
UrlOne == <<"h", "t", "t", "p", ":", "/", "/", "e", "/", "%", "s">>
UrlTwo == <<"h", "t", "t", "p", ":", "/", "/", "e", "/", "%", "s", "/", "%", "s">>
\* 's, t,m'
TemplateList == <<"s", ",", " ", "t", ",", "m">>
\* A template's subsection with its url and no override
Section(url) ==
    [url |-> url, cert |-> None, key |-> None, user |-> None, pw |-> None,
     ssl_check |-> None]

Sections == (<<"s">> :> Section(UrlOne)) @@ (<<"m">> :> Section(UrlTwo))

TemplateConfigs ==
    {[NoConfig EXCEPT !.impl = "template", !.cache_root = CacheRoot,
                      !.templates = TemplateList, !.sections = Sections,
                      !.delimiter = dl, !.default_format = df,
                      !.head_resolvable = h] :
        dl \in {None, <<",">>}, df \in {None, Jp2}, h \in BOOLEAN}

InitTemplate ==
    /\ cfg \in TemplateConfigs
    /\ world \in {w \in HttpWorlds : cfg.head_resolvable \/ w.head_ok = w.get_ok}
    /\ InitCommon

SpecTemplate == InitTemplate /\ [][Next]_vars

\* The filesystem strategy: the source roots /a and /b, in either order, or
\* the single root /a; any of the files the identifiers can name may exist.
RootA == <<"/", "a">>
RootB == <<"/", "b">>

FsConfigs ==
    {[NoConfig EXCEPT !.impl = "fs", !.src_img_roots = <<RootA, RootB>>],
     [NoConfig EXCEPT !.impl = "fs", !.src_img_roots = <<RootB, RootA>>],
     [NoConfig EXCEPT !.impl = "fs", !.src_img_root = RootA]}

FsSources ==
    {Node(join(root, unquote(ident))) : root \in {RootA, RootB}, ident \in FsIdents}

InitFS ==
    /\ cfg \in FsConfigs
    /\ world \in {[NoWorld EXCEPT !.src = src] : src \in SUBSET FsSources}
    /\ InitCommon

SpecFS == InitFS /\ [][Next]_vars

\* The network-filesystem caching strategy: source_root /s, cache_root /c,
\* which may be there already.
SourceRoot == <<"/", "s">>

NetFsConfigs ==
    {[NoConfig EXCEPT !.impl = "netfs", !.cache_root = CacheRoot,
                      !.source_root = SourceRoot]}

NetFsSources == {Node(join(SourceRoot, unquote(ident))) : ident \in NetFsIdents}

InitNetFS ==
    /\ cfg \in NetFsConfigs
    /\ world \in {[NoWorld EXCEPT !.src = src] : src \in SUBSET NetFsSources}
    /\ self = NewSelf
    /\ dirs \in {{}, {Node(CacheRoot)}}
    /\ files = <<>>
    /\ calls = <<>>
    /\ run = NoRun

SpecNetFS == InitNetFS /\ [][Next]_vars

\* The two caching strategies.
SpecCaching == (InitHTTP \/ InitNetFS) /\ [][Next]_vars

\* Construction from configurations that may lack a required key.
ConstructConfigs ==
    {[NoConfig EXCEPT !.impl = "http", !.cache_root = cr, !.source_prefix = sp,
                      !.uri_resolvable = u] :
        cr \in {None, CacheRoot}, sp \in {None, SourcePrefix}, u \in BOOLEAN}
    \cup
    {[NoConfig EXCEPT !.impl = "template", !.cache_root = cr,
                      !.templates = TemplateList, !.sections = sec] :
        cr \in {None, CacheRoot},
        sec \in {Sections, (<<"s">> :> Section(None)) @@ (<<"m">> :> Section(UrlTwo))}}
    \cup
    {[NoConfig EXCEPT !.impl = "netfs", !.cache_root = cr, !.source_root = sr] :
        cr \in {None, CacheRoot}, sr \in {None, SourceRoot}}

InitConstruct ==
    /\ cfg \in ConstructConfigs
    /\ world \in {[NoWorld EXCEPT !.get_ok = TRUE, !.head_ok = TRUE,
                                  !.ctype = "image/tiff", !.src = src] :
                     src \in {{}, NetFsSources}}
    /\ InitCommon

SpecConstruct == InitConstruct /\ [][Next]_vars

\* ------------------------------------------------------------ claims: HTTP caching

\* The calls, by their place in the order they were made.
Calls == 1..Len(calls)

IsResolve(i) == calls[i].op = "resolve"
IsProbe(i) == calls[i].op = "is_resolvable"

\* A GET of the identifier's source URL is sent and answered with success.
OriginServes(ident) ==
    LET req == _web_request_url(unquote(ident))
    IN  /\ req.exc = "none"
        /\ request("GET", req.url).exc = "none"
        /\ request("GET", req.url).ok

C2_Claim ==
    \A i \in Calls :
        (/\ i + 1 \in Calls /\ IsProbe(i) /\ IsResolve(i + 1)
         /\ calls[i].ident = calls[i + 1].ident
         /\ calls[i].out = "True")
        => calls[i + 1].out = "ok"

\* C3: whenever the cache entry of id is there as the call starts,
\* is_resolvable(id) returns true and sends no request, and resolve(id) sends
\* no request.
C3_Claim ==
    \A i \in Calls :
        calls[i].hit =>
            /\ calls[i].nreq = 0
            /\ IsProbe(i) => calls[i].out = "True"

\* The source of the identifier is there: the origin serves it, the file
\* exists under source_root.
Served(ident) ==
    IF cfg.impl = "netfs" THEN Net_is_resolvable(ident) ELSE OriginServes(ident)

TrailingExtension(ident) ==
    IF Contains(ident, ".")
    THEN SubSeq(ident, RFind(ident, ".") + 2, Len(ident))
    ELSE Undetermined

FormatByPrecedence(ident) ==
    IF cfg.default_format # None THEN cfg.default_format
    ELSE IF world.ctype \in DOMAIN FORMATS_BY_MEDIA_TYPE
    THEN FORMATS_BY_MEDIA_TYPE[world.ctype]
    ELSE IF TrailingExtension(unquote(ident)) # Undetermined
            /\ Len(TrailingExtension(unquote(ident))) + 1 <= 5
    THEN TrailingExtension(unquote(ident))
    ELSE Undetermined

\* C5: the format resolve(id) returns is the one the precedence gives, and
\* resolve(id) fails for want of a format when the precedence gives none.
C5_Claim ==
    \A i \in Calls :
        IsResolve(i) =>
            /\ calls[i].out = "ok"
                  => calls[i].fmt = FormatByPrecedence(calls[i].ident)
            /\ (/\ ~calls[i].hit /\ OriginServes(calls[i].ident)
                /\ FormatByPrecedence(calls[i].ident) = Undetermined)
                  => calls[i].out = "NotFound" /\ calls[i].why = "format"

\* C8: a resolve that has to populate the cache and whose fetch does not
\* succeed fails with NotFound.
C8_Claim ==
    \A i \in Calls :
        (IsResolve(i) /\ ~calls[i].hit /\ ~OriginServes(calls[i].ident))
        => calls[i].out = "NotFound"

\* C9: with ident_regex configured, a call for an identifier that does not
\* match it is rejected and sends no request.
C9_Claim ==
    \A i \in Calls :
        (/\ self.ident_regex # None
         /\ ~regex_match(self.ident_regex, unquote(calls[i].ident)))
        => /\ calls[i].nreq = 0
           /\ calls[i].out \in {"False", "NotFound"}

\* ------------------------------------------------------------ claims: template dispatch

\* The templates that are configured: listed, and with a subsection.
ConfiguredTemplates ==
    {n \in TemplateNames(Get(cfg.templates, Empty)) : n \in DOMAIN cfg.sections}

\* The identifier has no colon, or what precedes its first colon is no
\* configured template.
NoTemplate(ident) ==
    \/ ~Contains(unquote(ident), ":")
    \/ Split1(unquote(ident), ":")[1] \notin ConfiguredTemplates

\* C6: for an identifier without a configured template, is_resolvable
\* returns false and resolve fails with NotFound, and no request is sent.
C6_NoTemplateNoRequest ==
    \A i \in Calls :
        NoTemplate(calls[i].ident) =>
            /\ calls[i].nreq = 0
            /\ IsProbe(i) => calls[i].out = "False"
            /\ IsResolve(i) => calls[i].out = "NotFound"

\* resolve was called for an identifier with an unknown prefix, and
\* is_resolvable for an identifier without a colon.
C6_Witness ==
    \E i \in Calls : \E j \in Calls :
        /\ IsResolve(i) /\ Contains(unquote(calls[i].ident), ":")
        /\ NoTemplate(calls[i].ident) /\ calls[i].out = "NotFound"
        /\ IsProbe(j) /\ ~Contains(unquote(calls[j].ident), ":")
        /\ calls[j].out = "False"

\* ------------------------------------------------------------ claims: filesystem

\* The configured source roots, in order.
Roots ==
    IF cfg.src_img_roots # None THEN cfg.src_img_roots ELSE <<cfg.src_img_root>>

\* The places in the list of the roots under which the identifier exists.
Matching(ident) ==
    {k \in 1..Len(Roots) : src_exists(join(Roots[k], unquote(ident)))}

FirstMatch(ident) ==
    CHOOSE k \in Matching(ident) : \A m \in Matching(ident) : k <= m

\* C7: resolve returns the decoded identifier joined to the first root, in
\* list order, under which it exists, and fails with NotFound when there is
\* none; is_resolvable is true exactly when there is one.
C7_FirstRootWins ==
    \A i \in Calls :
        /\ IsResolve(i) =>
              IF Matching(calls[i].ident) = {}
              THEN calls[i].out = "NotFound"
              ELSE /\ calls[i].out = "ok"
                   /\ calls[i].path = join(Roots[FirstMatch(calls[i].ident)],
                                           unquote(calls[i].ident))
        /\ IsProbe(i) => (calls[i].out = "True" <=> Matching(calls[i].ident) # {})

\* resolve returned for an identifier that exists under two roots, and
\* for one that exists under the second root only.
C7_Witness ==
    \E i \in Calls : \E j \in Calls :
        /\ IsResolve(i) /\ calls[i].out = "ok"
        /\ Matching(calls[i].ident) = {1, 2}
        /\ join(Roots[1], unquote(calls[i].ident))
              # join(Roots[2], unquote(calls[i].ident))
        /\ IsResolve(j) /\ calls[j].out = "ok"
        /\ Matching(calls[j].ident) = {2}

\* ------------------------------------------------------------ claims: construction

\* A key the strategy requires is absent from the configuration.
MissingRequired ==
    CASE cfg.impl = "http" ->
           cfg.cache_root = None
           \/ (~cfg.uri_resolvable /\ cfg.source_prefix = None)
      [] cfg.impl = "template" ->
           \/ cfg.cache_root = None
           \/ \E n \in TemplateNames(Get(cfg.templates, Empty)) :
                 n \notin DOMAIN cfg.sections \/ cfg.sections[n].url = None
      [] cfg.impl = "netfs" ->
           cfg.cache_root = None \/ cfg.source_root = None

C11_Claim ==
    \A i \in Calls :
        (/\ cfg.impl = "netfs" /\ IsResolve(i)
         /\ Net_is_resolvable(calls[i].ident) /\ ~calls[i].hit)
        => /\ calls[i].out = "ok"
           /\ calls[i].path = join(CacheRoot, unquote(calls[i].ident))

\* ------------------------------------------------------------ deployments: request options

CertA == <<"c", "A">>
KeyA == <<"k", "A">>
UserA == <<"u", "A">>
PwA == <<"p", "A">>
CertS == <<"c", "S">>
KeyS == <<"k", "S">>
UserM == <<"u", "M">>
PwM == <<"p", "M">>

\* The generic authentication settings: each of cert, key, user, pw and
\* ssl_check set or not.
AuthConfigs ==
    {[NoConfig EXCEPT !.cache_root = CacheRoot, !.cert = c, !.key = k,
                      !.user = u, !.pw = p, !.ssl_check = v] :
        c \in {None, CertA}, k \in {None, KeyA}, u \in {None, UserA},
        p \in {None, PwA}, v \in {None, PyFalse}}

\* The subsections of template s: without override, with cert and key, with
\* cert alone, with every override; and of template m: without override,
\* with user, pw and ssl_check.
SectionsS ==
    {Section(UrlOne),
     [Section(UrlOne) EXCEPT !.cert = CertS, !.key = KeyS],
     [Section(UrlOne) EXCEPT !.cert = CertS],
     [Section(UrlOne) EXCEPT !.cert = CertS, !.key = KeyS, !.user = UserM,
                             !.pw = PwM, !.ssl_check = PyTrue]}

SectionsM ==
    {Section(UrlOne),
     [Section(UrlOne) EXCEPT !.user = UserM, !.pw = PwM, !.ssl_check = PyFalse]}

InitOptions ==
    /\ cfg \in {[c EXCEPT !.impl = "http", !.source_prefix = SourcePrefix] :
                   c \in AuthConfigs}
           \cup {[c EXCEPT !.impl = "template", !.templates = TemplateList,
                           !.sections = (<<"s">> :> s) @@ (<<"m">> :> m)] :
                   c \in {a \in AuthConfigs : (a.cert = None) = (a.key = None)
                                              /\ (a.user = None) = (a.pw = None)},
                   s \in SectionsS, m \in SectionsM}
    /\ world \in {[NoWorld EXCEPT !.get_ok = ok, !.head_ok = ok, !.ctype = "image/tiff"] :
                     ok \in BOOLEAN}
    /\ InitCommon

SpecOptions == InitOptions /\ [][Next]_vars

\* ------------------------------------------------------------ claims: request options

\* The call handed options to requests.get or requests.head.
MadeRequest(i) == calls[i].nreq > 0

\* C12: with cert and key and user and pw all configured, the options of a
\* request carry the client certificate and no basic-auth credentials.
C12_Claim ==
    \A i \in Calls :
        (/\ cfg.impl = "http" /\ MadeRequest(i)
         /\ cfg.cert # None /\ cfg.key # None /\ cfg.user # None /\ cfg.pw # None)
        => /\ calls[i].options.cert = <<cfg.cert, cfg.key>>
           /\ calls[i].options.auth = None

\* The generic options, as the configuration gives them.
GenericCert == IF cfg.cert # None /\ cfg.key # None THEN <<cfg.cert, cfg.key>> ELSE None
GenericAuth == IF cfg.user # None /\ cfg.pw # None THEN <<cfg.user, cfg.pw>> ELSE None
GenericVerify == IF cfg.ssl_check # None THEN cfg.ssl_check ELSE PyTrue

\* The subsection of the template the identifier names.
Matched(ident) == cfg.sections[Split1(unquote(ident), ":")[1]]

\* C13: the options of a request for an identifier with a configured prefix
\* are, for each of cert/key, user/pw and ssl_check, the matched template's
\* when the template sets it and the generic one when it does not.
C13_TemplateOverrides ==
    \A i \in Calls :
        (cfg.impl = "template" /\ MadeRequest(i)) =>
            LET conf == Matched(calls[i].ident)
            IN  /\ calls[i].options.cert =
                      IF conf.cert # None /\ conf.key # None
                      THEN <<conf.cert, conf.key>> ELSE GenericCert
                /\ calls[i].options.auth =
                      IF conf.user # None /\ conf.pw # None
                      THEN <<conf.user, conf.pw>> ELSE GenericAuth
                /\ calls[i].options.verify =
                      IF conf.ssl_check # None THEN conf.ssl_check ELSE GenericVerify

\* A request for template s went out with the template's certificate in
\* place of the generic one and with the generic credentials, while
\* template m sets credentials of its own.
C13_Witness ==
    \E i \in Calls :
        /\ cfg.impl = "template" /\ MadeRequest(i)
        /\ Split1(unquote(calls[i].ident), ":")[1] = <<"s">>
        /\ cfg.cert = CertA /\ cfg.key = KeyA /\ cfg.user = UserA /\ cfg.pw = PwA
        /\ cfg.sections[<<"s">>].cert = CertS /\ cfg.sections[<<"s">>].key = KeyS
        /\ cfg.sections[<<"s">>].user = None
        /\ cfg.sections[<<"m">>].user = UserM
        /\ calls[i].options.cert = <<CertS, KeyS>>
        /\ calls[i].options.auth = <<UserA, PwA>>

\* ------------------------------------------------------------ deployments: cache layout

\* The HTTP caching strategy asked for identifiers in two encodings, and
\* for identifiers whose prefix segment is rooted or is '..'.
InitLayout ==
    /\ cfg \in {[NoConfig EXCEPT !.impl = "http", !.cache_root = CacheRoot,
                                 !.source_prefix = SourcePrefix,
                                 !.default_format = df] : df \in {None, Jp2}}
    /\ world \in {[NoWorld EXCEPT !.get_ok = ok, !.head_ok = ok, !.ctype = ct,
                                  !.asked = LayoutIdents] :
                     ok \in BOOLEAN, ct \in {"absent", "image/tiff"}}
    /\ InitCommon

SpecLayout == InitLayout /\ [][Next]_vars

\* ------------------------------------------------------------ claims: cache layout

\* C14: every file that population writes lies inside cache_root, in a
\* directory below it, and is named loris_cache.<format>.
C14_Claim ==
    \A n \in DOMAIN files :
        /\ Len(n) > Len(Node(CacheRoot)) + 1
        /\ SubSeq(n, 1, Len(Node(CacheRoot))) = Node(CacheRoot)
        /\ StartsWith(Last(n), loris_cache_dot)

M1 == <<"m", "1">>
M2 == <<"m", "2">>
\* p1.jpg and p2.tif
P1 == <<"p", "1", ".", "j", "p", "g">>
P2 == <<"p", "2", ".", "t", "i", "f">>

\* What the index may answer: nothing; a record of another media
\* reference; a record of m1; a record of m2 and m1; two records; a record
\* of m1 without the field of the requested size.
IndexAnswers ==
    {<<>>,
     <<[mediaReference |-> <<M1>>, locations |-> None]>>,
     <<[mediaReference |-> <<M2>>, locations |-> <<P2>>]>>,
     <<[mediaReference |-> <<M1>>, locations |-> <<P1>>]>>,
     <<[mediaReference |-> <<M2, M1>>, locations |-> <<P2, P1>>]>>,
     <<[mediaReference |-> <<M2>>, locations |-> <<P2>>],
       [mediaReference |-> <<M1>>, locations |-> <<P1>>]>>}

InitIwm ==
    /\ cfg \in {[NoConfig EXCEPT !.impl = "iwm", !.src_img_roots = <<RootA, RootB>>],
                [NoConfig EXCEPT !.impl = "iwm", !.src_img_root = RootB]}
    /\ world \in {[NoWorld EXCEPT !.docs = docs, !.src = src] :
                     docs \in IndexAnswers,
                     src \in SUBSET {Node(join(RootA, P1)), Node(join(RootB, P1)),
                                     Node(join(RootB, P2))}}
    /\ InitCommon

SpecIwm == InitIwm /\ [][Next]_vars

\* ------------------------------------------------------------ claims: metadata index

\* The index has a record whose media references hold the identifier's.
HasRecord(ident) ==
    \E k \in 1..Len(world.docs) : \E c \in 1..Len(world.docs[k].mediaReference) :
        world.docs[k].mediaReference[c] = Split(unquote(ident), "/")[2]

\* C16: under the metadata-backed strategy, resolve either fails with
\* NotFound or returns an existing path under a source root, for every
\* identifier; it fails with NotFound when the index has no matching record.
C16_Claim ==
    \A i \in Calls :
        (cfg.impl = "iwm" /\ IsResolve(i)) =>
            /\ calls[i].out \in {"ok", "NotFound"}
            /\ calls[i].out = "ok" => src_exists(calls[i].path)
            /\ (Len(Split(unquote(calls[i].ident), "/")) = 3
                /\ ~HasRecord(calls[i].ident)) => calls[i].out = "NotFound"

\* ------------------------------------------------------------ deployments: extension map

Jpeg == <<"j", "p", "e", "g">>
Jpg == <<"j", "p", "g">>

\* The alias tables: empty; jpeg to jpg; jpeg to jpg and jpg to jp2; a key
\* in upper case.
ExtensionMaps ==
    {<<>>,
     Jpeg :> Jpg,
     (Jpeg :> Jpg) @@ (Jpg :> Jp2),
     <<"J", "P", "E", "G">> :> Jpg}

InitExt ==
    /\ cfg \in {[NoConfig EXCEPT !.impl = "extfs", !.src_img_roots = <<RootA, RootB>>,
                                 !.extension_map = [present |-> TRUE, map |-> em]] :
                   em \in ExtensionMaps}
    /\ world \in {[NoWorld EXCEPT !.src = src] :
                     src \in SUBSET {Node(join(RootA, unquote(ident))) :
                                        ident \in ExtIdents}}
    /\ InitCommon

SpecExt == InitExt /\ [][Next]_vars

\* ------------------------------------------------------------ claims: extension map

\* The text after the last dot of the identifier.
Extension(ident) == SubSeq(ident, RFind(ident, ".") + 2, Len(ident))

\* The configured alias of an extension, or the extension when it has none.
Alias(ext) ==
    IF ext \in DOMAIN cfg.extension_map.map THEN cfg.extension_map.map[ext] ELSE ext

\* C17: the format resolve returns under the extension-normalizing strategy
\* is the alias, looked up once, of the identifier's extension in lower case.
C17_LowerThenAlias ==
    \A i \in Calls :
        (cfg.impl = "extfs" /\ IsResolve(i) /\ calls[i].out = "ok")
        => calls[i].fmt = Alias(lower(Extension(calls[i].ident)))

\* resolve returned jpg for an identifier ending in .JPEG, under a table
\* that also maps jpg.
C17_Witness ==
    \E i \in Calls :
        /\ cfg.impl = "extfs" /\ IsResolve(i) /\ calls[i].out = "ok"
        /\ calls[i].ident = Id_a_JPEG
        /\ DOMAIN cfg.extension_map.map = {Jpeg, Jpg}
        /\ calls[i].fmt = Jpg

\* ------------------------------------------------------------ deployments: concurrent resolve

\* The HTTP caching strategy with concurrent resolve calls for one
\* identifier, which the origin serves.
InitConcurrent ==
    /\ cfg \in {[NoConfig EXCEPT !.impl = "http", !.cache_root = CacheRoot,
                                 !.source_prefix = SourcePrefix]}
    /\ world \in {[NoWorld EXCEPT !.get_ok = TRUE, !.head_ok = TRUE, !.ctype = ct,
                                  !.asked = {Id_a_jpg}] :
                     ct \in DOMAIN FORMATS_BY_MEDIA_TYPE}
    /\ InitCommon

SpecConcurrent == InitConcurrent /\ [][NextConcurrent]_vars

\* ------------------------------------------------------------ claims: concurrent resolve

\* The staged files of the identifier's cache entry.
Staged(ident) == glob_loris_cache(dirs, files, cache_dir_path(ident))

\* C18: each cache entry directory holds at most one staged file.
C18_Claim ==
    \A ident \in Idents : Cardinality(Staged(ident)) <= 1

\* The call populated the entry: it passed the in-cache check, fetched and
\* wrote every chunk, and has returned.
Populated(t) ==
    /\ Thread(t).pc = "done"
    /\ Thread(t).passed
    /\ Thread(t).offset = NumChunks

\* The calls that wrote to the file.
Writers(fp) == {t \in Threads : Thread(t).passed /\ Thread(t).fp = fp}

\* The file the last writer wrote to.
LastWritten == Thread(run.last_writer).fp

Complete(body) ==
    /\ Len(body) = NumChunks
    /\ \A k \in 1..NumChunks : body[k] # 0 /\ body[k] = body[1]

Called == calls' # calls
Call == calls'[Len(calls')]

\* A resolve call whose population failed with NotFound for a response
\* without success, a URL without scheme or an undeterminable format.
PopulationFailed(c) ==
    /\ c.op = "resolve"
    /\ ~c.hit
    /\ c.out = "NotFound"
    /\ c.why \in {"status", "schema", "format"}

\* C21: a resolve call whose population fails with NotFound (status, scheme
\* or format) leaves the cache directories and files as they were, with no
\* entry for the identifier; a resolve call for the same identifier made
\* next finds no entry and goes through population again.
C21_FailedPopulationLeavesCache ==
    [][/\ Called /\ PopulationFailed(Call)
          => /\ dirs' = dirs /\ files' = files
             /\ ~in_cache(dirs', files', Call.ident)
       /\ (/\ Called /\ Call.op = "resolve" /\ calls # <<>>
           /\ PopulationFailed(calls[Len(calls)])
           /\ calls[Len(calls)].ident = Call.ident)
          => ~Call.hit /\ PopulationFailed(Call)]_vars

\* Two resolve calls in a row for one identifier: the population of the
\* first failed on the response's status, the second found nothing cached
\* and sent the request again.
C21_Witness ==
    /\ Len(calls) = 2
    /\ PopulationFailed(calls[1]) /\ calls[1].why = "status"
    /\ calls[2].op = "resolve" /\ calls[2].ident = calls[1].ident
    /\ ~calls[2].hit /\ calls[2].nreq = 1
    /\ dirs = {} /\ files = <<>>

\* ------------------------------------------------------------ deployments: source removal

\* The network-filesystem caching strategy over a source filesystem that
\* loses files.
SpecSource == InitNetFS /\ [][NextSource]_vars

\* ------------------------------------------------------------ claims: source removal

\* Nothing is at the identifier's place under source_root.
SourceAbsent(ident) == Node(join(SourceRoot, unquote(ident))) \notin world.src

\* C22: under the network-filesystem strategy, a call for an identifier
\* whose source file is absent answers false (is_resolvable) or fails with
\* NotFound (resolve) and returns no path, whether or not a cached copy of
\* the identifier exists.
C22_SourceDecides ==
    [][Called /\ self.impl = "netfs" /\ SourceAbsent(Call.ident)
          => /\ Call.op = "is_resolvable" => Call.out = "False"
             /\ Call.op = "resolve" => Call.out = "NotFound" /\ Call.path = None]_vars

\* A resolve call cached the identifier's copy; the source file was then
\* removed, and the next resolve call, with the copy in the cache, failed
\* with NotFound.
C22_Witness ==
    /\ Len(calls) = 2
    /\ calls[1].op = "resolve" /\ calls[1].out = "ok"
    /\ calls[2].op = "resolve" /\ calls[2].ident = calls[1].ident
    /\ calls[2].hit /\ calls[2].out = "NotFound"
    /\ SourceAbsent(calls[2].ident)

=============================================================================
